---------------------------- MODULE Spec2Model ----------------------------
(***************************************************************************)
(* The write-back state cache of the wasmlanche SDK (state.rs): one        *)
(* session (State<K>) over the three imported host functions put, get and  *)
(* delete, together with the borsh encoding of the values it moves.        *)
(*                                                                         *)
(* The guest is a wasm32 module: every guest address and length fits 32    *)
(* bits, so the pointer packing done for the arguments of a host call      *)
(* cannot fail there and the host calls below are always issued.           *)
(***************************************************************************)
EXTENDS Integers, Sequences, FiniteSets, TLC

\* ------------------------------------------------------------------ words
\* A 64-bit quantity (usize on a 64-bit target, u64, i64) is kept as its four 16-bit
\* limbs, least significant first, so that every width of the source is exact.
\* An i64 is negative when the top bit of its last limb is set.
Limb == 256 * 256
HalfLimb == Limb \div 2
Zero64 == <<0, 0, 0, 0>>
MinusOne64 == <<Limb - 1, Limb - 1, Limb - 1, Limb - 1>>
\* The 64-bit quantity of a small natural number (below 2^31).
U64(n) == <<n % Limb, n \div Limb, 0, 0>>
\* The natural number of a quantity below 2^31.
Small(x) == x[1] + Limb * x[2]
IsNeg(x) == x[4] >= HalfLimb
\* x > u32::MAX, unsigned.
AboveU32(x) == x[3] # 0 \/ x[4] # 0
\* x as u32, and i64::from of it.
AsU32(x) == <<x[1], x[2], 0, 0>>
\* x << 32 on an i64: the bits shifted out are lost.
Shl32(x) == <<0, 0, x[1], x[2]>>
\* x >> 32 on an i64: the sign fills the top.
Shr32(x) == IF IsNeg(x) THEN <<x[3], x[4], Limb - 1, Limb - 1>> ELSE <<x[3], x[4], 0, 0>>
RECURSIVE BitOr16(_, _)
BitOr16(a, b) ==
  IF a = 0 THEN b ELSE IF b = 0 THEN a
  ELSE (IF a % 2 = 1 \/ b % 2 = 1 THEN 1 ELSE 0) + 2 * BitOr16(a \div 2, b \div 2)
RECURSIVE BitAnd16(_, _)
BitAnd16(a, b) ==
  IF a = 0 \/ b = 0 THEN 0
  ELSE (IF a % 2 = 1 /\ b % 2 = 1 THEN 1 ELSE 0) + 2 * BitAnd16(a \div 2, b \div 2)
BitOr64(x, y) == [i \in 1..4 |-> BitOr16(x[i], y[i])]
BitAnd64(x, y) == [i \in 1..4 |-> BitAnd16(x[i], y[i])]
\* let mask: u32 = !0; i64::from(mask)
Mask32 == <<Limb - 1, Limb - 1, 0, 0>>

\* ------------------------------------------------------------------ memory.rs
\* to_smart_ptr, on the address and the length of its argument slice.
\* (a check of the address alone)
to_smart_ptr_ptr_only(ptr, len) ==
  IF AboveU32(ptr) THEN [ok |-> FALSE, err |-> "IntegerConversion", word |-> Zero64]
  ELSE [ok |-> TRUE, err |-> "", word |-> BitOr64(AsU32(ptr), Shl32(AsU32(len)))]
to_smart_ptr(ptr, len) ==
  IF AboveU32(ptr) \/ AboveU32(len)
  THEN [ok |-> FALSE, err |-> "IntegerConversion", word |-> Zero64]
  ELSE [ok |-> TRUE, err |-> "", word |-> BitOr64(AsU32(ptr), Shl32(AsU32(len)))]

\* split_smart_ptr: assert!(arg >= 0), then the two fields.
\* (a mask one limb short)
split_smart_ptr_short(arg) ==
  IF IsNeg(arg) THEN [panic |-> TRUE, ptr |-> Zero64, len |-> Zero64]
  ELSE [panic |-> FALSE, ptr |-> BitAnd64(arg, <<Limb - 1, 0, 0, 0>>), len |-> Shr32(arg)]
split_smart_ptr(arg) ==
  IF IsNeg(arg) THEN [panic |-> TRUE, ptr |-> Zero64, len |-> Zero64]
  ELSE [panic |-> FALSE, ptr |-> BitAnd64(arg, Mask32), len |-> Shr32(arg)]

\* alloc, where addr is the address the platform allocator hands to
\* Vec::with_capacity(len): with_capacity panics on a capacity above isize::MAX, and
\* the assertion requires the address to fit an i64.
\* (an alloc without its assertion)
alloc_unchecked(len, addr) ==
  IF IsNeg(len) THEN [panic |-> TRUE, ptr |-> Zero64]
  ELSE [panic |-> FALSE, ptr |-> addr]
alloc(len, addr) ==
  IF IsNeg(len) THEN [panic |-> TRUE, ptr |-> Zero64]
  ELSE IF IsNeg(addr) THEN [panic |-> TRUE, ptr |-> Zero64]
  ELSE [panic |-> FALSE, ptr |-> addr]
\* allocate
allocate(len, addr) == alloc(len, addr)

\* ------------------------------------------------------------------ bounds
\* Operations (store, get, delete, flush, drop, new) performed in one run.
MaxOps == 5

\* The keys and the u8 values a program uses; the statuses the imported put and
\* delete may return (0 is success), and the word the imported get returns for a
\* key it does not hold.
Keys == {"a", "b"}
Vals == {1, 2}
HostStatuses == {0, 1, 0 - 1}
FailStatuses == HostStatuses \ {0}
ErrWords == {MinusOne64, <<0, 0, 0, HalfLimb>>}
\* Where the platform allocator of the guest places its blocks.
FirstAddr == 16 * 256
FreshAddr(hp) == FirstAddr * (1 + Cardinality(DOMAIN hp))

\* ------------------------------------------------------------------ maps
\* A HashMap is a function whose domain is the set of keys present.
EmptyMap == [x \in {} |-> <<>>]
Insert(m, k, v) == [x \in (DOMAIN m) \cup {k} |-> IF x = k THEN v ELSE m[x]]
Remove(m, k) == [x \in (DOMAIN m) \ {k} |-> m[x]]
Range(s) == {s[i] : i \in DOMAIN s}
Perms(S) == {p \in [1..Cardinality(S) -> S] : \A i, j \in DOMAIN p : p[i] = p[j] => i = j}

\* ------------------------------------------------------------------ borsh
\* to_vec(&value) for a u8 value: the byte itself.
to_vec(v) == <<v>>
\* borsh::to_vec of a Vec<u8>: its length as a little-endian u32, then its bytes.
to_vec_bytes(b) == <<Len(b) % 256, (Len(b) \div 256) % 256, 0, 0>> \o b
\* from_slice::<u8>: exactly one byte, any trailing byte is an error.
from_slice(b) == IF Len(b) = 1 THEN [ok |-> TRUE, val |-> b[1]] ELSE [ok |-> FALSE, val |-> 0]

VARIABLES
  reads,      \* cache.reads: key -> bytes
  writes,     \* cache.writes: key -> [val: bytes, id: the store call that staged it]
  flushed,    \* cache.flushed
  status,     \* the session: "active", "dropped" (Drop returned), "panicked" (Drop panicked)
  hostStore,  \* the host's storage: key -> bytes
  last,       \* the last operation: its name, key, result and the host calls it made
  nops,       \* operations performed so far
  staged,     \* per key, the latest store of the session not deleted since
  puts,       \* ids of the staged values passed to the imported put, in call order
  dead,       \* ids of staged values overwritten by a later store before any flush
  failed,     \* some host call of the session reported failure
  got,        \* per key, the value of the first successful get since the last delete
  preDel,     \* per key deleted and not stored since: what existed before the delete
  expect,     \* per key, the value the previous session stored and dropped without flush
  gone,       \* keys deleted successfully in an earlier session and not stored since
  goneNow,    \* keys deleted successfully in this session and not stored since
  direct,     \* the host's storage had each store and delete of the session reached it at once
  heap,       \* guest memory: address -> [bytes, frees] of every block handed out
  pc,         \* the step reached by a run of the functions of memory.rs or of state_keys
  inp,        \* the inputs of that run
  out         \* its results

session == <<reads, writes, flushed, status, hostStore, last, nops, staged, puts, dead,
             failed, got, preDel, expect, gone, goneNow, direct>>
vars == <<reads, writes, flushed, status, hostStore, last, nops, staged, puts, dead,
          failed, got, preDel, expect, gone, goneNow, direct, heap, pc, inp, out>>

NoOp == [op |-> "none", key |-> "-", res |-> "Ok", ret |-> 0, bytes |-> <<>>, calls |-> <<>>]

\* ------------------------------------------------------------------ host
\* The imported functions. put stores the bytes it is handed under the key and
\* returns 0, or fails and stores nothing; delete removes the key and returns 0,
\* or fails and removes nothing; get hands back the stored bytes behind a
\* non-negative word, or a negative word.
host_put(hs, k, bytes, st) == IF st = 0 THEN Insert(hs, k, bytes) ELSE hs
host_delete(hs, k, st) == IF st = 0 THEN Remove(hs, k) ELSE hs
\* For its result get has the guest allocate a block (the exported alloc), copies the
\* stored bytes into it and returns the packed pointer to it; ew is the word it
\* returns for a key it does not hold.
host_get(hs, k, hp, ew) ==
  IF k \in DOMAIN hs
  THEN LET addr == FreshAddr(hp)
       IN [word |-> BitOr64(U64(addr), Shl32(U64(Len(hs[k])))),
           heap |-> Insert(hp, addr, [bytes |-> hs[k], frees |-> 0])]
  ELSE [word |-> ew, heap |-> hp]

\* host::put_bytes: serializes the value it is given (the bytes taken from the
\* writes partition) and maps the status of the imported put.
put_bytes_arg(value) == to_vec_bytes(value)
\* (a match that takes every status from 0 up as success)
put_bytes_res_from_zero(st) == IF st >= 0 THEN "Ok" ELSE "Write"
put_bytes_res(st) == IF st = 0 THEN "Ok" ELSE "Write"
\* host::delete_bytes
delete_bytes_res(st) == IF st = 0 THEN "Ok" ELSE "Delete"

\* A session just made by State::new.
NewSession ==
  /\ reads = EmptyMap
  /\ writes = EmptyMap
  /\ flushed = FALSE
  /\ status = "active"
  /\ last = NoOp
  /\ nops = 0
  /\ staged = EmptyMap
  /\ puts = <<>>
  /\ dead = {}
  /\ failed = FALSE
  /\ got = EmptyMap
  /\ preDel = EmptyMap
  /\ expect = EmptyMap
  /\ gone = {}
  /\ goneNow = {}

Init ==
  /\ NewSession
  /\ hostStore \in {EmptyMap, Insert(EmptyMap, "a", to_vec(1))}
  /\ direct = hostStore
  /\ heap = EmptyMap
  /\ pc = "state"
  /\ inp = <<>>
  /\ out = <<>>


\* ------------------------------------------------------------------ State
Call(fn, k, bytes, st, id) ==
  [fn |-> fn, key |-> k, val |-> bytes, status |-> st, id |-> id, word |-> Zero64]
GetCall(k, w) ==
  [fn |-> "get", key |-> k, val |-> <<>>, status |-> 0, id |-> 0, word |-> w]
Op(op, k, res, ret, bytes, calls) ==
  [op |-> op, key |-> k, res |-> res, ret |-> ret, bytes |-> bytes, calls |-> calls]

\* State::new
new ==
  /\ status = "dropped"
  /\ nops < MaxOps
  /\ reads' = EmptyMap
  /\ writes' = EmptyMap
  /\ flushed' = FALSE
  /\ status' = "active"
  /\ last' = Op("new", "-", "Ok", 0, <<>>, <<>>)
  /\ nops' = nops + 1
  /\ staged' = EmptyMap
  /\ puts' = <<>>
  /\ dead' = {}
  /\ failed' = FALSE
  /\ got' = EmptyMap
  /\ preDel' = EmptyMap
  /\ gone' = gone \cup goneNow
  /\ goneNow' = {}
  /\ direct' = hostStore
  /\ UNCHANGED <<hostStore, expect, heap, pc, inp, out>>

\* State::store: serialize the value and insert it into the writes partition.
\* (a store that starts the partition afresh)
store_writes_alone(w, k, entry) == Insert(EmptyMap, k, entry)
store_writes(w, k, entry) == Insert(w, k, entry)

store(k, v) ==
  /\ status = "active"
  /\ nops < MaxOps
  /\ writes' = store_writes(writes, k, [val |-> to_vec(v), id |-> nops + 1])
  /\ last' = Op("store", k, "Ok", 0, <<>>, <<>>)
  /\ nops' = nops + 1
  /\ staged' = Insert(staged, k, [id |-> nops + 1, val |-> v, fl |-> "none"])
  /\ dead' = IF k \in DOMAIN staged /\ staged[k].fl = "none"
             THEN dead \cup {staged[k].id} ELSE dead
  /\ preDel' = Remove(preDel, k)
  /\ expect' = Remove(expect, k)
  /\ gone' = gone \ {k}
  /\ goneNow' = goneNow \ {k}
  /\ direct' = host_put(direct, k, put_bytes_arg(to_vec(v)), 0)
  /\ UNCHANGED <<reads, flushed, status, hostStore, puts, failed, got, heap, pc, inp, out>>

\* State::get, the test of the word the host returned: val_ptr < 0.
\* (a test for the word -1 alone)
val_ptr_minus_one(w) == w = MinusOne64
val_ptr_negative(w) == IsNeg(w)
\* State::get, the cache consulted before the host: the reads partition only.
cache_get(r, w, k) == IF k \in DOMAIN r THEN {r[k]} ELSE {}
\* State::get, the reads partition when the host returned a negative word: the
\* call returns Err(Read) before it inserts anything.
\* (a get that memoizes the miss as an empty value)
read_miss_cached(r, k) == Insert(r, k, <<>>)
read_miss(r, k) == r
\* State::get, the bytes kept after a lookup or a fetch.
\* (a get that forgets what it fetched)
cache_put_skipped(r, k, bytes) == r
cache_put(r, k, bytes) == Insert(r, k, bytes)
\* memory::into_bytes on the word the host returned: the len bytes at ptr, copied.
into_bytes(smart_ptr, hp) ==
  LET sp == split_smart_ptr(smart_ptr)
  IN SubSeq(hp[Small(sp.ptr)].bytes, 1, Small(sp.len))

\* State::get. boom: into_bytes was handed a word on which the assertion of
\* split_smart_ptr fails, and the call panics.
get(k, ew) ==
  /\ status = "active"
  /\ nops < MaxOps
  /\ LET hit == cache_get(reads, writes, k)
         h == host_get(hostStore, k, heap, ew)
         calls == IF hit = {} THEN <<GetCall(k, h.word)>> ELSE <<>>
         miss == hit = {} /\ val_ptr_negative(h.word)
         boom == hit = {} /\ ~miss /\ split_smart_ptr(h.word).panic
         val_bytes == IF hit # {} THEN CHOOSE b \in hit : TRUE
                      ELSE IF miss \/ boom THEN <<>> ELSE into_bytes(h.word, h.heap)
         v == from_slice(val_bytes)
     IN /\ heap' = IF hit = {} THEN h.heap ELSE heap
        /\ reads' = IF miss THEN read_miss(reads, k)
                   ELSE IF boom THEN reads ELSE cache_put(reads, k, val_bytes)
        /\ last' = IF miss THEN Op("get", k, "Read", 0, <<>>, calls)
                   ELSE IF boom THEN Op("get", k, "panic", 0, <<>>, calls)
                   ELSE IF v.ok THEN Op("get", k, "Ok", v.val, val_bytes, calls)
                   ELSE Op("get", k, "Deserialization", 0, val_bytes, calls)
        /\ status' = IF boom THEN "panicked" ELSE status
        /\ failed' = (failed \/ miss \/ boom)
        /\ got' = IF ~miss /\ ~boom /\ v.ok /\ k \notin DOMAIN got THEN Insert(got, k, v.val) ELSE got
        /\ staged' = IF k \in DOMAIN staged /\ staged[k].fl = "ok"
                     THEN [staged EXCEPT ![k].fl = "seen"] ELSE staged
  /\ nops' = nops + 1
  /\ UNCHANGED <<writes, flushed, hostStore, puts, dead, preDel, expect, gone, goneNow, direct, pc, inp, out>>

\* State::delete: the key leaves both partitions, then the host is called.
\* (a delete that leaves the staged write in place)
delete_writes_kept(w, k) == w
delete_writes(w, k) == Remove(w, k)
\* (a delete that leaves the memoized read in place)
delete_reads_kept(r, k) == r
delete_reads(r, k) == Remove(r, k)

delete(k, st) ==
  /\ status = "active"
  /\ nops < MaxOps
  /\ writes' = delete_writes(writes, k)
  /\ reads' = delete_reads(reads, k)
  /\ hostStore' = host_delete(hostStore, k, st)
  /\ last' = Op("delete", k, delete_bytes_res(st), 0, <<>>, <<Call("delete", k, <<>>, st, 0)>>)
  /\ nops' = nops + 1
  /\ failed' = (failed \/ st # 0)
  /\ staged' = Remove(staged, k)
  /\ got' = Remove(got, k)
  /\ preDel' = Insert(preDel, k,
       [vals |-> (IF k \in DOMAIN hostStore THEN {hostStore[k]} ELSE {})
                 \cup (IF k \in DOMAIN reads THEN {reads[k]} ELSE {})
                 \cup (IF k \in DOMAIN writes THEN {writes[k].val} ELSE {}),
        hadRead |-> k \in DOMAIN reads,
        hadWrite |-> k \in DOMAIN writes])
  /\ expect' = Remove(expect, k)
  /\ gone' = IF st = 0 THEN gone ELSE gone \ {k}
  /\ goneNow' = IF st = 0 THEN goneNow \cup {k} ELSE goneNow \ {k}
  /\ direct' = host_delete(direct, k, st)
  /\ UNCHANGED <<flushed, status, puts, dead, heap, pc, inp, out>>

\* State::flush. writes.drain() hands out the entries in the map's own order; each is
\* passed to put_bytes, and the first error returns from the loop. The Drain iterator
\* is dropped on every way out of the loop, and dropping it removes the entries it
\* has not yet handed out.
\* (a loop over writes.iter(): nothing is removed)
drain_kept(w, order, attempted) == w
drain_rest(w, order, attempted) == EmptyMap
\* cache.flushed after the loop: set only when the loop ran to its end.
flush_flag(fl, res) == IF res = "Ok" THEN TRUE ELSE fl

RECURSIVE host_after(_, _)
host_after(hs, calls) ==
  IF calls = <<>> THEN hs
  ELSE host_after(host_put(hs, Head(calls).key, Head(calls).val, Head(calls).status), Tail(calls))

\* One run of the loop over `order`, where the put of entry number f fails with
\* status st (f = 0: no put fails).
flush_run(w, hs, fl, order, f, st) ==
  LET attempted == IF f = 0 THEN Len(order) ELSE f
      calls == [i \in 1..attempted |->
                  Call("put", order[i], put_bytes_arg(w[order[i]].val),
                       IF i = f THEN st ELSE 0, w[order[i]].id)]
      res == IF f = 0 THEN "Ok" ELSE put_bytes_res(st)
  IN [calls |-> calls, res |-> res, hostStore |-> host_after(hs, calls),
      writes |-> drain_rest(w, order, attempted), flushed |-> flush_flag(fl, res)]

Ids(calls) == [i \in DOMAIN calls |-> calls[i].id]
FlushMark(st, res) ==
  [k \in DOMAIN st |->
     IF st[k].fl \in {"none", "fail"}
     THEN [st[k] EXCEPT !.fl = IF res = "Ok" THEN "ok" ELSE "fail"]
     ELSE st[k]]

flush ==
  /\ status = "active"
  /\ nops < MaxOps
  /\ \E order \in Perms(DOMAIN writes) : \E f \in 0..Len(order) : \E st \in FailStatuses :
       LET r == flush_run(writes, hostStore, flushed, order, f, st)
       IN /\ writes' = r.writes
          /\ hostStore' = r.hostStore
          /\ flushed' = r.flushed
          /\ last' = Op("flush", "-", r.res, 0, <<>>, r.calls)
          /\ puts' = puts \o Ids(r.calls)
          /\ failed' = (failed \/ r.res # "Ok")
          /\ staged' = FlushMark(staged, r.res)
  /\ nops' = nops + 1
  /\ UNCHANGED <<reads, status, dead, got, preDel, expect, gone, goneNow, direct, heap, pc, inp, out>>

\* Drop for State: flush unless the session is marked flushed, and unwrap the result.
\* (a drop that ignores the result of its flush)
unwrap_swallowed(res) == "dropped"
unwrap(res) == IF res = "Ok" THEN "dropped" ELSE "panicked"
\* The guard of the flush in drop.
\* (a drop that leaves the flushing to the program)
drop_never_flushes(fl) == FALSE
drop_flushes(fl) == ~fl

drop ==
  /\ status = "active"
  /\ nops < MaxOps
  /\ \E order \in Perms(DOMAIN writes) : \E f \in 0..Len(order) : \E st \in FailStatuses :
       LET run == drop_flushes(flushed)
           r == IF run THEN flush_run(writes, hostStore, flushed, order, f, st)
                ELSE [calls |-> <<>>, res |-> "Ok", hostStore |-> hostStore,
                      writes |-> writes, flushed |-> flushed]
       IN /\ writes' = r.writes
          /\ hostStore' = r.hostStore
          /\ flushed' = r.flushed
          /\ status' = unwrap(r.res)
          /\ last' = Op("drop", "-", IF unwrap(r.res) = "dropped" THEN "Ok" ELSE "panic",
                        0, <<>>, r.calls)
          /\ puts' = puts \o Ids(r.calls)
          /\ failed' = (failed \/ r.res # "Ok")
          /\ expect' = IF unwrap(r.res) = "dropped"
                       THEN [k \in {x \in DOMAIN staged : staged[x].fl = "none"} |-> staged[k].val]
                       ELSE EmptyMap
  /\ nops' = nops + 1
  /\ UNCHANGED <<reads, staged, dead, got, preDel, gone, goneNow, direct, heap, pc, inp, out>>

Next ==
  \/ \E k \in Keys, v \in Vals : store(k, v)
  \/ \E k \in Keys, ew \in ErrWords : get(k, ew)
  \/ \E k \in Keys, st \in HostStatuses : delete(k, st)
  \/ flush
  \/ drop
  \/ new

Spec == Init /\ [][Next]_vars

\* ------------------------------------------------------------------ pointer codec
\* Runs of to_smart_ptr, split_smart_ptr and alloc on 64-bit addresses, lengths and
\* words: the limbs below give 0, 4096, 2^16-1, 2^31-1, 2^31, 2^32-1, 2^32,
\* 2^63-1, 2^63 and their neighbours.
Samples64 ==
  {<<a, b, c, d>> : a \in {0, 16 * 256, Limb - 1}, b \in {0, HalfLimb - 1, HalfLimb, Limb - 1},
                    c \in {0, 1, Limb - 1}, d \in {0, HalfLimb - 1, HalfLimb}}
NoOut ==
  [enc |-> [ok |-> FALSE, err |-> "", word |-> Zero64],
   dec |-> [panic |-> FALSE, ptr |-> Zero64, len |-> Zero64],
   al |-> [panic |-> FALSE, ptr |-> Zero64]]

InitCodec ==
  /\ NewSession
  /\ hostStore = EmptyMap
  /\ direct = EmptyMap
  /\ heap = EmptyMap
  /\ pc = "input"
  /\ inp \in [ptr : Samples64, len : Samples64, word : {Zero64}]
             \cup [ptr : {Zero64}, len : {Zero64}, word : Samples64]
  /\ out = NoOut

\* to_smart_ptr on a slice at inp.ptr of inp.len bytes
Encode ==
  /\ pc = "input"
  /\ pc' = "encoded"
  /\ out' = [out EXCEPT !.enc = to_smart_ptr(inp.ptr, inp.len)]
  /\ UNCHANGED <<session, heap, inp>>

\* split_smart_ptr on the word to_smart_ptr returned
Decode ==
  /\ pc = "encoded"
  /\ out.enc.ok
  /\ pc' = "decoded"
  /\ out' = [out EXCEPT !.dec = split_smart_ptr(out.enc.word)]
  /\ UNCHANGED <<session, heap, inp>>

\* split_smart_ptr on the word inp.word
DecodeWord ==
  /\ pc = "input"
  /\ pc' = "split"
  /\ out' = [out EXCEPT !.dec = split_smart_ptr(inp.word)]
  /\ UNCHANGED <<session, heap, inp>>

\* allocate(inp.len), the platform allocator answering with the address inp.ptr
Allocate ==
  /\ pc = "input"
  /\ pc' = "allocated"
  /\ out' = [out EXCEPT !.al = allocate(inp.len, inp.ptr)]
  /\ UNCHANGED <<session, heap, inp>>

\* to_smart_ptr on the block allocate returned
EncodeAllocated ==
  /\ pc = "allocated"
  /\ ~out.al.panic
  /\ pc' = "alloc_encoded"
  /\ out' = [out EXCEPT !.enc = to_smart_ptr(out.al.ptr, inp.len)]
  /\ UNCHANGED <<session, heap, inp>>

NextCodec == Encode \/ Decode \/ DecodeWord \/ Allocate \/ EncodeAllocated

SpecCodec == InitCodec /\ [][NextCodec]_vars

\* ------------------------------------------------------------------ Memory
\* One block of MemLen bytes behind a Memory, and the Vec<u8> values taken from
\* it.  heap maps the address of every buffer to its bytes and to the number of
\* times it was given back to the allocator; a Vec is the address of the buffer
\* it owns, tagged with the method that made it.
MemLen == 2
MemOps == 4
Bytes == {0, 1}
ByteSeqs(n) == UNION {[1..m -> Bytes] : m \in 0..n}
RemoveAt(s, i) == SubSeq(s, 1, i - 1) \o SubSeq(s, i + 1, Len(s))
NoVec == [at |-> 0, by |-> ""]

\* ptr::copy_from overwriting every byte of dst past the source with 0
copy_from_padded(dst, src) ==
  [i \in 1..Len(dst) |-> IF i <= Len(src) THEN src[i] ELSE 0]

\* ptr::copy_from: the first Len(src) bytes of dst become src
copy_from(dst, src) ==
  [i \in 1..Len(dst) |-> IF i <= Len(src) THEN src[i] ELSE dst[i]]

\* Memory::write
write(ptr, bytes, hp) ==
  [hp EXCEPT ![ptr].bytes = copy_from(@, bytes)]

\* Memory::range: slice::from_raw_parts(ptr, length).to_vec(), a new buffer
range(ptr, length, hp) ==
  LET at == FreshAddr(hp)
  IN  [vec |-> [at |-> at, by |-> "range"],
       heap |-> Insert(hp, at, [bytes |-> SubSeq(hp[ptr].bytes, 1, length), frees |-> 0])]

\* Memory::range_mut handing out a copy of the block
range_mut_copied(ptr, length, hp) ==
  LET at == FreshAddr(hp)
  IN  [vec |-> [at |-> at, by |-> "range_mut"],
       heap |-> Insert(hp, at, [bytes |-> SubSeq(hp[ptr].bytes, 1, length), frees |-> 0])]

\* Memory::range_mut: Vec::from_raw_parts(ptr, length, length), the block itself
range_mut(ptr, length, hp) ==
  [vec |-> [at |-> ptr, by |-> "range_mut"], heap |-> hp]

\* a Vec<u8> going out of scope gives its buffer back to the allocator
vec_drop(vec, hp) ==
  [hp EXCEPT ![vec.at].frees = @ + 1]

\* dealloc: Vec::from_raw_parts(ptr, capacity, capacity), dropped at once
dealloc(ptr, capacity, hp) ==
  vec_drop([at |-> ptr, by |-> "dealloc"], hp)

deallocate(ptr, capacity, hp) == dealloc(ptr, capacity, hp)

\* allocate(MemLen) returned the block at FirstAddr; its bytes are uninitialized
InitMemory ==
  /\ NewSession
  /\ hostStore = EmptyMap
  /\ direct = EmptyMap
  /\ pc = "memory"
  /\ inp = [ptr |-> FirstAddr, len |-> MemLen]
  /\ \E b \in [1..MemLen -> Bytes] :
       heap = Insert(EmptyMap, FirstAddr, [bytes |-> b, frees |-> 0])
  /\ out = [vecs |-> <<>>, n |-> 0, op |-> "", arg |-> <<>>, idx |-> 0, via |-> NoVec]

\* the block has not been freed twice, and there are steps left
MemGo == out.n < MemOps /\ heap[inp.ptr].frees < 2

MemDone(op, arg, idx, via, vecs) ==
  out' = [vecs |-> vecs, n |-> out.n + 1, op |-> op, arg |-> arg, idx |-> idx, via |-> via]

MemWrite(bytes) ==
  /\ MemGo
  /\ heap' = write(inp.ptr, bytes, heap)
  /\ MemDone("write", bytes, 0, NoVec, out.vecs)
  /\ UNCHANGED <<session, pc, inp>>

MemRange ==
  /\ MemGo
  /\ LET r == range(inp.ptr, inp.len, heap)
     IN  /\ heap' = r.heap
         /\ MemDone("range", <<>>, 0, r.vec, Append(out.vecs, r.vec))
  /\ UNCHANGED <<session, pc, inp>>

MemRangeMut ==
  /\ MemGo
  /\ LET r == range_mut(inp.ptr, inp.len, heap)
     IN  /\ heap' = r.heap
         /\ MemDone("range_mut", <<>>, 0, r.vec, Append(out.vecs, r.vec))
  /\ UNCHANGED <<session, pc, inp>>

\* result[j - 1] = v through the i-th Vec
VecSet(i, j, v) ==
  /\ MemGo
  /\ i \in 1..Len(out.vecs)
  /\ heap' = [heap EXCEPT ![out.vecs[i].at].bytes[j] = v]
  /\ MemDone("set", <<v>>, j, out.vecs[i], out.vecs)
  /\ UNCHANGED <<session, pc, inp>>

\* the i-th Vec goes out of scope
VecDrop(i) ==
  /\ MemGo
  /\ i \in 1..Len(out.vecs)
  /\ heap' = vec_drop(out.vecs[i], heap)
  /\ MemDone("drop", <<>>, 0, out.vecs[i], RemoveAt(out.vecs, i))
  /\ UNCHANGED <<session, pc, inp>>

MemDealloc ==
  /\ MemGo
  /\ heap' = deallocate(inp.ptr, inp.len, heap)
  /\ MemDone("dealloc", <<>>, 0, NoVec, out.vecs)
  /\ UNCHANGED <<session, pc, inp>>

\* the allocator hands the freed block to someone else, who fills it
MemReuse(b) ==
  /\ MemGo
  /\ heap[inp.ptr].frees > 0
  /\ heap' = [heap EXCEPT ![inp.ptr].bytes = b]
  /\ MemDone("reuse", b, 0, NoVec, out.vecs)
  /\ UNCHANGED <<session, pc, inp>>

NextMemory ==
  \/ \E bytes \in ByteSeqs(MemLen) : MemWrite(bytes)
  \/ MemRange
  \/ MemRangeMut
  \/ \E i \in 1..MemOps, j \in 1..MemLen, v \in Bytes : VecSet(i, j, v)
  \/ \E i \in 1..MemOps : VecDrop(i)
  \/ MemDealloc
  \/ \E b \in [1..MemLen -> Bytes] : MemReuse(b)

SpecMemory == InitMemory /\ [][NextMemory]_vars

\* ------------------------------------------------------------------ state_keys
\* An enum under #[state_keys] is the sequence of the kinds of its variants; a
\* tuple variant holds one field, the bytes of its payload.
MaxVariants == 3
Kinds == {"unit", "tuple", "named"}
Enums == UNION {[1..n -> Kinds] : n \in 1..MaxVariants}
NoKey == [variant |-> 0, payload |-> <<>>, panic |-> FALSE, key |-> <<>>]

\* generate_to_vec: one match arm per variant, tagged idx as u8; only the arm of
\* a variant with named fields carries a comma of its own
generate_to_vec(variants) ==
  [i \in 1..Len(variants) |->
     [kind |-> variants[i], index |-> (i - 1) % 256, comma |-> variants[i] = "named"]]

\* state_keys: the arms joined by commas inside `match self { .. }`; an arm that
\* ends in its own comma and is followed by the joining comma is not a match body
state_keys(variants) ==
  LET arms == generate_to_vec(variants)
  IN  [ok |-> \A i \in 1..(Len(arms) - 1) : ~arms[i].comma, arms |-> arms]

\* the generated to_vec(self) on the variant of one arm
key_to_vec(arm, payload) ==
  CASE arm.kind = "unit" -> [panic |-> FALSE, key |-> <<arm.index>>]
    [] arm.kind = "tuple" -> [panic |-> FALSE, key |-> <<arm.index>> \o payload]
    [] arm.kind = "named" -> [panic |-> TRUE, key |-> <<>>]

InitKeys ==
  /\ NewSession
  /\ hostStore = EmptyMap
  /\ direct = EmptyMap
  /\ heap = EmptyMap
  /\ pc = "declared"
  /\ inp \in [variants : Enums]
  /\ out = [ok |-> FALSE, arms |-> <<>>, first |-> NoKey, second |-> NoKey]

\* the macro expands and the compiler takes or refuses its output
Generate ==
  /\ pc = "declared"
  /\ LET g == state_keys(inp.variants)
     IN  /\ pc' = IF g.ok THEN "generated" ELSE "rejected"
         /\ out' = [out EXCEPT !.ok = g.ok, !.arms = g.arms]
  /\ UNCHANGED <<session, heap, inp>>

\* the program builds the key of variant i; a tuple variant holds payload
BuiltKey(i, payload) ==
  LET r == key_to_vec(out.arms[i], payload)
  IN  [variant |-> i, payload |-> payload, panic |-> r.panic, key |-> r.key]

BuildFirst(i, payload) ==
  /\ pc = "generated"
  /\ i \in 1..Len(out.arms)
  /\ out.arms[i].kind # "tuple" => payload = <<>>
  /\ pc' = "built"
  /\ out' = [out EXCEPT !.first = BuiltKey(i, payload)]
  /\ UNCHANGED <<session, heap, inp>>

BuildSecond(i, payload) ==
  /\ pc = "built"
  /\ ~out.first.panic
  /\ i \in 1..Len(out.arms)
  /\ out.arms[i].kind # "tuple" => payload = <<>>
  /\ pc' = "built_two"
  /\ out' = [out EXCEPT !.second = BuiltKey(i, payload)]
  /\ UNCHANGED <<session, heap, inp>>

NextKeys ==
  \/ Generate
  \/ \E i \in 1..MaxVariants, payload \in ByteSeqs(MemLen) : BuildFirst(i, payload)
  \/ \E i \in 1..MaxVariants, payload \in ByteSeqs(MemLen) : BuildSecond(i, payload)

SpecKeys == InitKeys /\ [][NextKeys]_vars

\* ------------------------------------------------------------------ claims
Step == nops' = nops + 1
PutOk(calls, k) == \E i \in DOMAIN calls : calls[i].fn = "put" /\ calls[i].key = k /\ calls[i].status = 0
PutFailed(calls) == \E i \in DOMAIN calls : calls[i].fn = "put" /\ calls[i].status # 0
HostGets(calls) == {i \in DOMAIN calls : calls[i].fn = "get"}

\* C1: when a session is dropped and no host call of it failed, every value that
\* store staged and that was neither overwritten nor deleted afterwards has been
\* passed to the imported put, also when it was stored after a successful flush.
C1_NoStagedWriteLost ==
  (last.op = "drop" /\ last.res = "Ok" /\ ~failed)
    => \A k \in DOMAIN staged : staged[k].id \in Range(puts)

\* C2: a flush that returns Write made its failing put last, and every entry of
\* the writes partition that no put of this flush stored is still in the
\* partition, unchanged, afterwards.
C2_FailedFlushKeepsUnflushed ==
  [][(Step /\ last'.op = "flush" /\ last'.res = "Write")
       => /\ last'.calls # <<>>
          /\ \A i \in DOMAIN last'.calls :
               (last'.calls[i].status # 0) <=> (i = Len(last'.calls))
          /\ \A k \in DOMAIN writes :
               ~PutOk(last'.calls, k) => (k \in DOMAIN writes' /\ writes'[k] = writes[k])]_vars

\* C3: a get of a key that was stored, with no flush and no delete of it since,
\* returns the stored value and makes no host call.
C3_StagedWriteIsRead ==
  (last.op = "get" /\ last.key \in DOMAIN staged /\ staged[last.key].fl = "none")
    => (last.res = "Ok" /\ last.ret = staged[last.key].val /\ last.calls = <<>>)

\* C4: a flush that returns Ok leaves the writes partition empty, and the first get
\* after it of a key staged before it calls the imported get.
C4_FlushCompleteness ==
  [][Step =>
       /\ (last'.op = "flush" /\ last'.res = "Ok") => DOMAIN writes' = {}
       /\ (last'.op = "get" /\ last'.key \in DOMAIN staged /\ staged[last'.key].fl = "ok")
            => HostGets(last'.calls) # {}]_vars

\* C5: once a get of a key has succeeded, a later get of it with no delete of it in
\* between makes no host call and returns the same value.
C5_ReadThrough ==
  [][(Step /\ last'.op = "get" /\ last'.key \in DOMAIN got)
       => (last'.calls = <<>> /\ last'.res = "Ok" /\ last'.ret = got[last'.key])]_vars

\* C5 witness: a get answered from the cache after an earlier get of the key
\* succeeded, with a different value staged for the key in between.
C5_Witness ==
  /\ last.op = "get" /\ last.res = "Ok" /\ last.calls = <<>>
  /\ last.key \in DOMAIN got /\ last.ret = got[last.key]
  /\ last.key \in DOMAIN staged /\ staged[last.key].val # last.ret

\* C6: after a delete of a key, with no store of it since, no get of it returns
\* bytes that existed for it before the delete, whatever the host answered.
C6_DeleteVisibility ==
  (last.op = "get" /\ last.res = "Ok" /\ last.key \in DOMAIN preDel)
    => last.bytes \notin preDel[last.key].vals

\* C7: a delete leaves the key in neither partition and makes exactly one host
\* call, the imported delete of that key; it returns Delete exactly when the host
\* reported failure.
C7_DeleteImmediate ==
  last.op = "delete"
    => /\ last.key \notin DOMAIN reads
       /\ last.key \notin DOMAIN writes
       /\ Len(last.calls) = 1
       /\ last.calls[1].fn = "delete"
       /\ last.calls[1].key = last.key
       /\ (last.res = "Delete") <=> (last.calls[1].status # 0)
       /\ last.res \in {"Ok", "Delete"}

\* C7 witness: a delete the host refused, of a key that was in both partitions.
C7_Witness ==
  /\ last.op = "delete" /\ last.res = "Delete"
  /\ preDel[last.key].hadRead /\ preDel[last.key].hadWrite
  /\ last.key \in DOMAIN hostStore

\* C8: a get in a new session of a key the previous session stored and dropped
\* without a flush returns the stored value; a get in a new session of a key whose
\* delete succeeded fails with Read.
C8_DurableAcrossSessions ==
  /\ (last.op = "get" /\ last.key \in DOMAIN expect)
       => (last.res = "Ok" /\ last.ret = expect[last.key])
  /\ (last.op = "get" /\ last.key \in gone) => last.res = "Read"

\* C9: no staged value is passed to the imported put twice, and a value overwritten
\* by a later store before any flush is never passed to it.
C9_AtMostOnceLatestOnly ==
  /\ \A i, j \in DOMAIN puts : puts[i] = puts[j] => i = j
  /\ \A i \in DOMAIN puts : puts[i] \notin dead

\* C9 witness: a drop made its puts after a value had been overwritten and another
\* had already been put by an explicit flush.
C9_Witness ==
  /\ last.op = "drop" /\ last.calls # <<>>
  /\ dead # {}
  /\ Len(puts) > Len(last.calls)

\* C10: a drop whose flush had a put fail does not return: it panics.
C10_DropFailureIsFatal ==
  (last.op = "drop" /\ PutFailed(last.calls)) => (status = "panicked" /\ last.res = "panic")

\* C10 witness: a drop whose second put failed, after the first was stored.
C10_Witness ==
  /\ last.op = "drop" /\ Len(last.calls) = 2
  /\ last.calls[1].status = 0 /\ last.calls[2].status # 0
  /\ status = "panicked"

C12_ResultBufferReleased ==
  last.op = "get"
    => /\ \A i \in DOMAIN last.calls :
            ~IsNeg(last.calls[i].word)
              => LET a == Small(split_smart_ptr(last.calls[i].word).ptr)
                 IN a \in DOMAIN heap /\ heap[a].frees = 1
       /\ \A a \in DOMAIN heap : heap[a].frees = 1

\* C13: put_bytes returns Ok exactly when the imported put returned 0 and Write
\* otherwise, delete_bytes returns Ok exactly when the imported delete returned 0 and
\* Delete otherwise, and a get whose imported get returned a negative word returns
\* Read: no operation reports success after a host call of it reported failure.
C13_StatusMapping ==
  /\ last.op = "flush"
       => /\ (last.res = "Ok") <=> (\A i \in DOMAIN last.calls : last.calls[i].status = 0)
          /\ last.res \in {"Ok", "Write"}
  /\ last.op = "drop"
       => (last.res = "Ok") <=> (\A i \in DOMAIN last.calls : last.calls[i].status = 0)
  /\ last.op = "delete"
       => /\ (last.res = "Ok") <=> (last.calls[1].status = 0)
          /\ last.res \in {"Ok", "Delete"}
  /\ last.op = "get"
       => \A i \in DOMAIN last.calls : IsNeg(last.calls[i].word) => last.res = "Read"

\* C13 witness: a flush whose second put returned a positive status and that
\* returned Write.
C13_Witness ==
  /\ last.op = "flush" /\ last.res = "Write"
  /\ Len(last.calls) = 2
  /\ last.calls[2].status > 0

\* C14: for every address and length of at most 2^32-1, to_smart_ptr succeeds and
\* split_smart_ptr of its word returns that address and that length without
\* panicking.
C14_RoundTrip ==
  /\ (pc = "encoded" /\ ~AboveU32(inp.ptr) /\ ~AboveU32(inp.len)) => out.enc.ok
  /\ pc = "decoded" => (~out.dec.panic /\ out.dec.ptr = inp.ptr /\ out.dec.len = inp.len)

\* C15: to_smart_ptr fails, with IntegerConversion, exactly when the address or the
\* length is above 2^32-1; otherwise its word has the address in its low 32 bits
\* and the length in its high 32 bits.
C15_EncodeBoundary ==
  pc = "encoded"
    => /\ out.enc.ok <=> (~AboveU32(inp.ptr) /\ ~AboveU32(inp.len))
       /\ ~out.enc.ok => out.enc.err = "IntegerConversion"
       /\ out.enc.ok => out.enc.word = <<inp.ptr[1], inp.ptr[2], inp.len[1], inp.len[2]>>

\* C15 witness: to_smart_ptr refused a length of 2^32 at an address that fits.
C15_Witness ==
  /\ pc = "encoded" /\ ~out.enc.ok
  /\ inp.len = <<0, 0, 1, 0>> /\ ~AboveU32(inp.ptr)

\* C16, as claimed: allocate aborts whenever the address of the block or the length
\* is above 2^32-1, so to_smart_ptr succeeds on every block allocate returned.
C16_AllocFitsCodec ==
  /\ (pc = "allocated" /\ (AboveU32(inp.ptr) \/ AboveU32(inp.len))) => out.al.panic
  /\ pc = "alloc_encoded" => out.enc.ok

\* C16, amended: allocate aborts whenever the address of the block is 2^63 or more,
\* and otherwise returns that address; to_smart_ptr succeeds on the block it
\* returned exactly when the address and the length are at most 2^32-1.
C16_AllocFitsI64 ==
  /\ (pc = "allocated" /\ IsNeg(inp.ptr)) => out.al.panic
  /\ (pc \in {"allocated", "alloc_encoded"} /\ ~out.al.panic)
       => (out.al.ptr = inp.ptr /\ ~IsNeg(out.al.ptr))
  /\ pc = "alloc_encoded"
       => (out.enc.ok <=> (~AboveU32(out.al.ptr) /\ ~AboveU32(inp.len)))

\* C16 witness: allocate returned a block at 2^32, which to_smart_ptr refused.
C16_Witness ==
  /\ pc = "alloc_encoded" /\ ~out.enc.ok
  /\ out.al.ptr = <<0, 0, 1, 0>> /\ ~AboveU32(inp.len)

\* C17: split_smart_ptr panics exactly on the negative words; on any other word w it
\* returns the length w >> 32, below 2^31, and the address w & 0xFFFFFFFF, at
\* most 2^32-1.
C17_Decode ==
  pc = "split"
    => /\ out.dec.panic <=> inp.word[4] >= HalfLimb
       /\ ~out.dec.panic
            => /\ out.dec.len = <<inp.word[3], inp.word[4], 0, 0>>
               /\ out.dec.ptr = <<inp.word[1], inp.word[2], 0, 0>>
               /\ ~AboveU32(out.dec.ptr)
               /\ ~AboveU32(out.dec.len) /\ out.dec.len[2] < HalfLimb

\* C17 witness: the largest word, 2^63-1, split into the length 2^31-1 and the
\* address 2^32-1.
C17_Witness ==
  /\ pc = "split" /\ ~out.dec.panic
  /\ out.dec.len = <<Limb - 1, HalfLimb - 1, 0, 0>>
  /\ out.dec.ptr = <<Limb - 1, Limb - 1, 0, 0>>

MemStep == out'.n = out.n + 1

C19_RangeMutOwnership ==
  [][MemStep =>
      /\ out'.op = "range_mut" => (heap' = heap /\ out'.via.at = inp.ptr)
      /\ (out'.op = "set" /\ out'.via.by = "range_mut") =>
           heap'[inp.ptr].bytes[out'.idx] = out'.arg[1]
      /\ out'.op = "write" =>
           \A i \in 1..Len(out.vecs) :
             out.vecs[i].by = "range_mut" =>
               SubSeq(heap'[out.vecs[i].at].bytes, 1, Len(out'.arg)) = out'.arg
      /\ ((out'.op = "drop" /\ out'.via.by = "range_mut") \/ out'.op = "dealloc") =>
           heap'[inp.ptr].frees = heap[inp.ptr].frees + 1
      /\ heap'[inp.ptr].frees # heap[inp.ptr].frees =>
           ((out'.op = "drop" /\ out'.via.by = "range_mut") \/ out'.op = "dealloc")]_vars

\* C19 witness: the buffer of a second range_mut went out of scope after the
\* first one had freed the block: a double free.
C19_Witness ==
  /\ pc = "memory" /\ out.op = "drop" /\ out.via.by = "range_mut"
  /\ heap[inp.ptr].frees = 2

\* C20: the key of a unit variant is its tag alone, the zero-based index of the
\* variant; the key of a tuple variant is its tag followed by its payload; the
\* keys of two distinct variants differ; and an enum with a variant with named
\* fields is refused when the code is generated, so that building a key never
\* panics.
C20_KeyEncoding ==
  /\ pc = "generated" => \A i \in 1..Len(inp.variants) : inp.variants[i] # "named"
  /\ pc \in {"built", "built_two"} =>
       /\ ~out.first.panic
       /\ inp.variants[out.first.variant] = "unit" =>
            out.first.key = <<out.first.variant - 1>>
       /\ inp.variants[out.first.variant] = "tuple" =>
            out.first.key = <<out.first.variant - 1>> \o out.first.payload
  /\ pc = "built_two" =>
       /\ ~out.second.panic
       /\ out.first.variant # out.second.variant => out.first.key # out.second.key

\* C21: once a key stored in the session has been deleted, and not stored again,
\* no flush and no drop of the session passes it to the imported put: every put
\* of a flush or of a drop carries the latest store of its key that no delete
\* has followed.
C21_DeleteCancelsStagedWrite ==
  [][(Step /\ last'.op \in {"flush", "drop"}) =>
      \A i \in DOMAIN last'.calls :
        /\ last'.calls[i].fn = "put"
        /\ last'.calls[i].key \in DOMAIN staged
        /\ last'.calls[i].id = staged[last'.calls[i].key].id
        /\ last'.calls[i].key \notin {k \in DOMAIN preDel : preDel[k].hadWrite}]_vars

\* C21 witness: a flush or a drop made a put while a key whose staged write was
\* deleted, and which is on the host no more, stayed out of it.
C21_Witness ==
  /\ last.op \in {"flush", "drop"}
  /\ last.calls # <<>>
  /\ \E k \in DOMAIN preDel : preDel[k].hadWrite /\ k \notin DOMAIN hostStore

\* C22: a get that fails with Read leaves the reads partition, the writes partition
\* and the flushed flag as they were, with no entry for its key in reads; and
\* the get of the same key that follows it calls the host again.
C22_ReadFailureLeavesSession ==
  [][Step =>
      /\ (last'.op = "get" /\ last'.res = "Read") =>
           /\ reads' = reads /\ writes' = writes /\ flushed' = flushed
           /\ last'.key \notin DOMAIN reads'
      /\ (last.op = "get" /\ last.res = "Read" /\ last'.op = "get" /\ last'.key = last.key) =>
           /\ HostGets(last'.calls) # {}
           /\ last'.calls[1].key = last.key]_vars

\* C22 witness: a get that called the host failed with Read, in a session with a
\* staged write and a memoized read of another key.
C22_Witness ==
  /\ last.op = "get" /\ last.res = "Read"
  /\ HostGets(last.calls) # {}
  /\ last.key \notin DOMAIN reads
  /\ reads # EmptyMap /\ writes # EmptyMap

\* C23: State::get never panics in split_smart_ptr: whenever the host returns a
\* negative word the call fails with Read, a call that went on to into_bytes had
\* a non-negative word from the host, and the test State::get makes on the word
\* is true of every word on which the assertion of split_smart_ptr fails.
C23_GetNeverHitsDecodeAssertion ==
  last.op = "get" =>
    /\ last.res # "panic"
    /\ status # "panicked"
    /\ \A i \in HostGets(last.calls) :
         /\ IsNeg(last.calls[i].word) => last.res = "Read"
         /\ last.res \in {"Ok", "Deserialization"} =>
              ~split_smart_ptr(last.calls[i].word).panic
         /\ \A w \in Samples64 : split_smart_ptr(w).panic => val_ptr_negative(w)

\* C23 witness: the host returned i64::MIN, and get failed with Read.
C23_Witness ==
  /\ last.op = "get" /\ last.res = "Read"
  /\ HostGets(last.calls) # {}
  /\ last.calls[1].word = <<0, 0, 0, HalfLimb>>

\* C24: when a session is dropped, no host call of it having failed and no value
\* stored after a flush being still staged, the host's storage is what it would
\* be had each store and each delete of the session been applied to it at once,
\* in the order of the calls, whatever the order in which flush takes the
\* entries of the writes partition.
C24_SequentialEquivalence ==
  [][(/\ Step
      /\ last'.op = "drop" /\ status' = "dropped" /\ ~failed'
      /\ flushed => \A k \in DOMAIN staged : staged[k].fl # "none")
     => hostStore' = direct']_vars

\* C24 witness: a drop put a staged value, after a delete had removed from the
\* host a key it held, and the host holds what the calls applied at once give.
C24_Witness ==
  /\ last.op = "drop" /\ status = "dropped" /\ ~failed
  /\ last.calls # <<>>
  /\ \E k \in DOMAIN preDel : preDel[k].vals # {} /\ k \notin DOMAIN hostStore
  /\ hostStore = direct /\ hostStore # EmptyMap

=============================================================================
